---------------------------- MODULE Spec2Model ----------------------------
(***************************************************************************)
(* A model of irqtop-rs (src/src/main.rs): the /proc/interrupts parser,    *)
(* the delta tracker (App::update_data, calculate_delta), the affinity     *)
(* resolver (get_affinity_map, get_effective_affinity_map), the sort       *)
(* engine (App::sort_data, App::next_sort), the interactive control loop   *)
(* (run_app, ui, show_irq_detail) and the way main ends the process.       *)
(*                                                                         *)
(* Byte strings are sequences of one-character strings, so that scanning,  *)
(* trimming and lexicographic comparison are computed, not assumed.        *)
(* Offsets are 0-based as in the source: byte i of s is s[i + 1].          *)
(***************************************************************************)
EXTENDS Integers, Sequences, FiniteSets, TLC

(***************************************************************************)
(* Bytes and strings                                                       *)
(***************************************************************************)

LF == "\n"

\* The characters the model uses, in ASCII order (u8 / str comparison).
AsciiOrder ==
    << LF, " ", ",", "-", "/", "0", "1", "2", "3", "4", "5", "6", "7", "8",
       "9", ":", "A", "C", "N", "P", "U", "a", "c", "e", "h", "i", "m", "p",
       "r", "t", "x" >>

Code(c) == CHOOSE i \in 1..Len(AsciiOrder) : AsciiOrder[i] = c

Digits == {"0", "1", "2", "3", "4", "5", "6", "7", "8", "9"}

\* u8::is_ascii_digit
IsAsciiDigit(c) == c \in Digits

\* u8::is_ascii_whitespace (of the characters of AsciiOrder)
IsAsciiWhitespace(c) == c \in {" ", LF}

\* (c - b'0') as u64
DigitValue(c) == Code(c) - Code("0")

\* s[from..] for 0-based from <= Len(s)
SliceFrom(s, from) == SubSeq(s, from + 1, Len(s))

\* s[from..to] for 0-based from <= to <= Len(s)
Slice(s, from, to) == SubSeq(s, from + 1, to)

RECURSIVE TrimStart(_)
TrimStart(s) ==
    IF s # << >> /\ IsAsciiWhitespace(Head(s)) THEN TrimStart(Tail(s)) ELSE s

RECURSIVE TrimEnd(_)
TrimEnd(s) ==
    IF s # << >> /\ IsAsciiWhitespace(s[Len(s)])
    THEN TrimEnd(SubSeq(s, 1, Len(s) - 1))
    ELSE s

\* str::trim
Trim(s) == TrimEnd(TrimStart(s))

\* Ord for str: bytewise lexicographic, a proper prefix is smaller
RECURSIVE StrLess(_, _)
StrLess(a, b) ==
    IF b = << >> THEN FALSE
    ELSE IF a = << >> THEN TRUE
    ELSE IF Code(Head(a)) # Code(Head(b)) THEN Code(Head(a)) < Code(Head(b))
    ELSE StrLess(Tail(a), Tail(b))

(***************************************************************************)
(* Snapshot Parser: read_interrupts                                        *)
(***************************************************************************)

\* memchr(b'\n', &content[pos..]).map(|p| pos + p).unwrap_or(content.len())
RECURSIVE LineEnd(_, _)
LineEnd(content, pos) ==
    IF pos >= Len(content) THEN Len(content)
    ELSE IF content[pos + 1] = LF THEN pos
    ELSE LineEnd(content, pos + 1)

\* while irq_end < line.len() && line[irq_end] != b':' { irq_end += 1 }
RECURSIVE IrqEnd(_, _)
IrqEnd(line, irq_end) ==
    IF irq_end < Len(line) /\ line[irq_end + 1] # ":"
    THEN IrqEnd(line, irq_end + 1)
    ELSE irq_end

\* while num_start < line.len() && line[num_start].is_ascii_whitespace()
RECURSIVE SkipWhitespace(_, _)
SkipWhitespace(line, num_start) ==
    IF num_start < Len(line) /\ IsAsciiWhitespace(line[num_start + 1])
    THEN SkipWhitespace(line, num_start + 1)
    ELSE num_start

\* Mutant of IsCounterByte: a comma ends the run, as a delimiter would
IsCounterByteDigitOnly(c) == IsAsciiDigit(c)

\* a byte of a counter run: a comma or an ASCII digit
IsCounterByte(c) == c = "," \/ IsAsciiDigit(c)

\* while num_end < line.len() && (line[num_end] == b',' || digit)
RECURSIVE NumEnd(_, _)
NumEnd(line, num_end) ==
    IF num_end < Len(line) /\ IsCounterByte(line[num_end + 1])
    THEN NumEnd(line, num_end + 1)
    ELSE num_end

\* for &c in run { if c != b',' { value = value * 10 + digit } }
\* (the runs of the model are far shorter than the 20 digits that reach 2^64)
RECURSIVE Accumulate(_, _)
Accumulate(run, value) ==
    IF run = << >> THEN value
    ELSE IF Head(run) # ","
         THEN Accumulate(Tail(run), value * 10 + DigitValue(Head(run)))
         ELSE Accumulate(Tail(run), value)

\* The counter loop: the counters pushed and the final value of num_start.
RECURSIVE ParseCounts(_, _, _)
ParseCounts(line, num_start, counts) ==
    IF num_start < Len(line)
    THEN LET ns == SkipWhitespace(line, num_start)
             ne == NumEnd(line, ns)
         IN  IF ns = ne
             THEN [counts |-> counts, num_start |-> ns]
             ELSE ParseCounts(line, ne,
                              Append(counts, Accumulate(Slice(line, ns, ne), 0)))
    ELSE [counts |-> counts, num_start |-> num_start]

\* One non-empty body line: "skip" (irq_end == 0), "panic" (the slice
\* line[name_start..] with name_start > line.len()), "drop" (no name or no
\* counter) or "record".
ParseLine(line) ==
    LET irq_end == IrqEnd(line, 0)
    IN  IF irq_end = 0 THEN [kind |-> "skip"]
        ELSE LET parsed == ParseCounts(line, irq_end + 1, << >>)
                 name_start == parsed.num_start
             IN  IF name_start > Len(line) THEN [kind |-> "panic"]
                 ELSE LET name == Trim(SliceFrom(line, name_start))
                      IN  IF name # << >> /\ parsed.counts # << >>
                          THEN [kind |-> "record",
                                id |-> Trim(Slice(line, 0, irq_end)),
                                counts |-> parsed.counts,
                                name |-> name]
                          ELSE [kind |-> "drop"]

\* HashMap::insert
MapInsert(m, k, v) == [x \in DOMAIN m \cup {k} |-> IF x = k THEN v ELSE m[x]]

EmptyMap == [x \in {} |-> 0]

\* The line loop of read_interrupts.
RECURSIVE ReadLoop(_, _, _, _)
ReadLoop(content, pos, line_num, irq_map) ==
    IF pos < Len(content)
    THEN LET end == LineEnd(content, pos)
             line == Slice(content, pos, end)
         IN  IF line_num = 0 THEN ReadLoop(content, end + 1, 1, irq_map)
             ELSE IF line = << >>
                  THEN ReadLoop(content, end + 1, line_num, irq_map)
             ELSE LET r == ParseLine(line)
                  IN  CASE r.kind = "skip" ->
                             ReadLoop(content, end + 1, line_num, irq_map)
                        [] r.kind = "panic" ->
                             [panicked |-> TRUE, map |-> EmptyMap]
                        [] r.kind = "record" ->
                             ReadLoop(content, end + 1, line_num + 1,
                                 MapInsert(irq_map, r.id,
                                     [counts |-> r.counts, name |-> r.name]))
                        [] OTHER ->
                             ReadLoop(content, end + 1, line_num + 1, irq_map)
    ELSE [panicked |-> FALSE, map |-> irq_map]

\* read_interrupts on the bytes of the accounting source
read_interrupts(content) == ReadLoop(content, 0, 0, EmptyMap)

(***************************************************************************)
(* Delta Tracker: calculate_delta and App::update_data                     *)
(***************************************************************************)

\* Mutant of saturating_sub: the distance between the two counters
abs_diff(n, o) == IF n >= o THEN n - o ELSE o - n

\* u64::saturating_sub
saturating_sub(n, o) == IF n >= o THEN n - o ELSE 0

Min(a, b) == IF a <= b THEN a ELSE b

\* new.counts.iter().zip(old.counts.iter()).map(|(n, o)| n.saturating_sub(*o))
ZipDeltas(new_counts, old_counts) ==
    [i \in 1..Min(Len(new_counts), Len(old_counts)) |->
        saturating_sub(new_counts[i], old_counts[i])]

\* Iterator::sum
RECURSIVE Sum(_)
Sum(s) == IF s = << >> THEN 0 ELSE Head(s) + Sum(Tail(s))

\* Mutant of calculate_delta: an IRQ absent from old is diffed against zero
RECURSIVE calculate_delta_from_zero(_, _, _)
calculate_delta_from_zero(old, new, order) ==
    IF order = << >> THEN << >>
    ELSE LET irq == Head(order)
             before == IF irq \in DOMAIN old THEN old[irq].counts
                       ELSE [i \in 1..Len(new[irq].counts) |-> 0]
         IN  << <<irq, Sum(ZipDeltas(new[irq].counts, before))>> >>
                 \o calculate_delta_from_zero(old, new, Tail(order))

\* Mutant of calculate_delta written from the wrong map: one entry for
\* every IRQ of old, also when new no longer has it
calculate_delta_over_old(old, new, order) ==
    LET n == Cardinality(DOMAIN old)
        o == CHOOSE o \in [1..n -> DOMAIN old] :
                 \A i, j \in 1..n : i # j => o[i] # o[j]
    IN  [i \in 1..n |->
            << o[i], IF o[i] \in DOMAIN new
                     THEN Sum(ZipDeltas(new[o[i]].counts, old[o[i]].counts))
                     ELSE 0 >>]

\* calculate_delta; order is the order in which the HashMap `new` is iterated
RECURSIVE calculate_delta(_, _, _)
calculate_delta(old, new, order) ==
    IF order = << >> THEN << >>
    ELSE LET irq == Head(order)
             rest == calculate_delta(old, new, Tail(order))
         IN  IF irq \in DOMAIN old
             THEN << <<irq, Sum(ZipDeltas(new[irq].counts, old[irq].counts))>> >>
                      \o rest
             ELSE rest

\* Mutant of PerCpuDeltas: a first-seen IRQ gets no vector
PerCpuDeltasSeenOnly(prev, new_data) ==
    [irq \in DOMAIN new_data \cap DOMAIN prev |->
        ZipDeltas(new_data[irq].counts, prev[irq].counts)]

\* The per-CPU loop of update_data
PerCpuDeltas(prev, new_data) ==
    [irq \in DOMAIN new_data |->
        IF irq \in DOMAIN prev
        THEN ZipDeltas(new_data[irq].counts, prev[irq].counts)
        ELSE new_data[irq].counts]

\* The orders in which a HashMap with these keys may be iterated
Orders(keys) ==
    {o \in [1..Cardinality(keys) -> keys] :
        \A i, j \in 1..Cardinality(keys) : i # j => o[i] # o[j]}

(***************************************************************************)
(* Sort Engine: App::sort_data and App::next_sort                          *)
(***************************************************************************)

NA == <<"N", "/", "A">>

\* map.get(k).unwrap_or(default)
GetOr(m, k, default) == IF k \in DOMAIN m THEN m[k] ELSE default

\* Mutant of SortLess: the total deltas compared the way the strings are,
\* smallest first
SortLessAscending(key, aff, eff, data, a, b) ==
    CASE key = "Irq" -> StrLess(a[1], b[1])
      [] key = "Delta" -> a[2] < b[2]
      [] key = "Affinity" -> StrLess(GetOr(aff, a[1], NA), GetOr(aff, b[1], NA))
      [] key = "EffectiveAffinity" ->
             StrLess(GetOr(eff, a[1], NA), GetOr(eff, b[1], NA))
      [] key = "Device" ->
             StrLess(IF a[1] \in DOMAIN data THEN data[a[1]].name ELSE NA,
                     IF b[1] \in DOMAIN data THEN data[b[1]].name ELSE NA)

\* The comparator of sort_data says a sorts strictly before b
SortLess(key, aff, eff, data, a, b) ==
    CASE key = "Irq" -> StrLess(a[1], b[1])
      [] key = "Delta" -> b[2] < a[2]
      [] key = "Affinity" -> StrLess(GetOr(aff, a[1], NA), GetOr(aff, b[1], NA))
      [] key = "EffectiveAffinity" ->
             StrLess(GetOr(eff, a[1], NA), GetOr(eff, b[1], NA))
      [] key = "Device" ->
             StrLess(IF a[1] \in DOMAIN data THEN data[a[1]].name ELSE NA,
                     IF b[1] \in DOMAIN data THEN data[b[1]].name ELSE NA)

\* slice::sort_by is a stable sort: x goes before the first element that
\* sorts strictly after it
RECURSIVE InsertStable(_, _, _, _, _, _)
InsertStable(key, aff, eff, data, sorted, x) ==
    IF sorted = << >> THEN <<x>>
    ELSE IF SortLess(key, aff, eff, data, x, Head(sorted))
         THEN <<x>> \o sorted
         ELSE <<Head(sorted)>>
                  \o InsertStable(key, aff, eff, data, Tail(sorted), x)

RECURSIVE sort_data(_, _, _, _, _)
sort_data(key, aff, eff, data, list) ==
    IF list = << >> THEN << >>
    ELSE InsertStable(key, aff, eff, data,
             sort_data(key, aff, eff, data, SubSeq(list, 1, Len(list) - 1)),
             list[Len(list)])

\* Mutant of next_sort: the rotation total-delta, id, configured affinity,
\* effective affinity, device
next_sort_id_second(key) ==
    CASE key = "Delta" -> "Irq"
      [] key = "Irq" -> "Affinity"
      [] key = "Affinity" -> "EffectiveAffinity"
      [] key = "EffectiveAffinity" -> "Device"
      [] key = "Device" -> "Delta"

\* Mutant of next_sort: Device goes back to Delta, and Irq is never selected
next_sort_skip_irq(key) ==
    CASE key = "Irq" -> "Delta"
      [] key = "Delta" -> "Affinity"
      [] key = "Affinity" -> "EffectiveAffinity"
      [] key = "EffectiveAffinity" -> "Device"
      [] key = "Device" -> "Delta"

next_sort(key) ==
    CASE key = "Irq" -> "Delta"
      [] key = "Delta" -> "Affinity"
      [] key = "Affinity" -> "EffectiveAffinity"
      [] key = "EffectiveAffinity" -> "Device"
      [] key = "Device" -> "Irq"

SortKeys == {"Irq", "Delta", "Affinity", "EffectiveAffinity", "Device"}

(***************************************************************************)
(* Affinity Resolver: get_affinity_map and get_effective_affinity_map      *)
(***************************************************************************)

\* The /proc/irq directory is [listable, entries]: listable says whether
\* fs::read_dir succeeds, entries maps each entry name to its two files,
\* a file being <<bytes>> when fs::read_to_string succeeds and << >> when
\* it fails.

\* The entries whose file of the given kind can be read
ReadableEntries(dir, kind) ==
    {n \in DOMAIN dir.entries : dir.entries[n][kind] # << >>}

\* get_affinity_map: keyed by the entry name, the trimmed bytes of
\* smp_affinity_list
get_affinity_map(dir) ==
    IF ~dir.listable THEN EmptyMap
    ELSE [irq \in ReadableEntries(dir, "smp_affinity_list") |->
             Trim(dir.entries[irq].smp_affinity_list[1])]

\* Mutant of get_effective_affinity_map: an entry counts only when both of
\* its files can be read
get_effective_affinity_map_both(dir) ==
    IF ~dir.listable THEN EmptyMap
    ELSE [irq \in {Trim(n) : n \in ReadableEntries(dir, "effective_affinity_list")
                                    \cap ReadableEntries(dir, "smp_affinity_list")} |->
             LET n == CHOOSE n \in ReadableEntries(dir, "effective_affinity_list") :
                          Trim(n) = irq
             IN  Trim(dir.entries[n].effective_affinity_list[1])]

\* get_effective_affinity_map: keyed by the trimmed entry name, the trimmed
\* bytes of effective_affinity_list
get_effective_affinity_map(dir) ==
    IF ~dir.listable THEN EmptyMap
    ELSE [irq \in {Trim(n) : n \in ReadableEntries(dir, "effective_affinity_list")} |->
             LET n == CHOOSE n \in ReadableEntries(dir, "effective_affinity_list") :
                          Trim(n) = irq
             IN  Trim(dir.entries[n].effective_affinity_list[1])]

(***************************************************************************)
(* State                                                                   *)
(***************************************************************************)

VARIABLES
    irq_data,               \* App.irq_data: id -> [counts, name]
    prev_irq_data,          \* App.prev_irq_data
    deltas,                 \* App.deltas: sequence of <<id, total delta>>
    per_cpu_deltas,         \* App.per_cpu_deltas: id -> sequence of deltas
    affinity_map,           \* App.affinity_map
    effective_affinity_map, \* App.effective_affinity_map
    selected_row,           \* App.selected_row
    sort_by,                \* App.sort_by
    show_help,              \* App.show_help
    show_irq_detail,        \* App.show_irq_detail
    detail_irq_name,        \* App.detail_irq_name: <<id>> for Some(id), << >> for None
    detail_scroll_offset,   \* App.detail_scroll_offset
    running,                \* App.running
    pc,                     \* where main / run_app stands
    size_height,            \* f.size().height seen by the last draw
    base_data,              \* history: irq_data as it was when the last
                            \* update_data began
    older_ids,              \* history: the ids of irq_data when the update
                            \* before the last began
    sort_trail,             \* history: sort_by before each of the last Tabs
    content,                \* the bytes read_interrupts is given
    parse_result,           \* what read_interrupts returned
    proc_irq,               \* the /proc/irq directory the affinity scans read
    raw_mode,               \* main: the terminal is in raw mode
    alternate_screen,       \* main: the alternate screen is entered
    exit_status,            \* the status the process ended with
    diagnostic,             \* where the process printed an error
    prev_stats,             \* show mode: PREV_STATS, <<counts>> for Some
    show_deltas             \* show mode: the deltas last printed

appVars ==
    << irq_data, prev_irq_data, deltas, per_cpu_deltas, affinity_map,
       effective_affinity_map, selected_row, sort_by, show_help,
       show_irq_detail, detail_irq_name, detail_scroll_offset, running >>

parseVars == << content, parse_result >>

\* The terminal and the end of the process, which only main touches
mainVars == << raw_mode, alternate_screen, exit_status, diagnostic >>

\* What update_data and run_app never touch
\* What only the show mode of main touches
showVars == << prev_stats, show_deltas >>

outsideVars == << parseVars, proc_irq, mainVars, showVars >>

vars == << appVars, pc, size_height, base_data, older_ids, sort_trail, outsideVars >>

(***************************************************************************)
(* Inputs                                                                  *)
(***************************************************************************)

Id16 == <<"1", "6">>
Id9 == <<"9">>
Ids == {Id16, Id9}

\* The description /proc/interrupts gives each IRQ
NameOf(id) == IF id = Id16 THEN <<"t", "i", "m", "e", "r">>
              ELSE <<"a", "c", "p", "i">>

\* All maps from a subset of Ids to [counts, name], the counts of id drawn
\* from vecs[id]
SnapshotsOver(vecs) ==
    UNION {{[id \in present |-> [counts |-> c[id], name |-> NameOf(id)]] :
               c \in {f \in [present -> UNION {vecs[i] : i \in Ids}] :
                         \A id \in present : f[id] \in vecs[id]}} :
           present \in SUBSET Ids}

\* Tracker runs: IRQ 16 has up to MaxCpus counters and IRQ 9 one; each
\* counter is one of two values, so that it may rise, stay or fall between
\* two samples
MaxCpus == 2

CounterValues(i) == IF i % 2 = 1 THEN {120, 150} ELSE {45, 60}

VecsUpTo(n) ==
    UNION {{v \in [1..k -> {45, 60, 120, 150}] :
               \A i \in 1..k : v[i] \in CounterValues(i)} : k \in 1..n}

TrackerSnapshots ==
    SnapshotsOver([id \in Ids |-> IF id = Id16 THEN VecsUpTo(MaxCpus)
                                  ELSE VecsUpTo(1)])

\* Hot-plug runs: IRQ 16 alone, with any number of counters up to MaxCpus
HotplugSnapshots ==
    SnapshotsOver([id \in Ids |-> IF id = Id16 THEN VecsUpTo(MaxCpus) ELSE {}])

\* Interactive runs: an IRQ has one CPU or five, every counter the same
UiCpuCounts == {1, 5}

UiSnapshots ==
    SnapshotsOver([id \in Ids |-> {[i \in 1..n |-> 7] : n \in UiCpuCounts}])

\* Contents of /proc/irq/<id>/smp_affinity_list, effective_affinity_list
Aff03 == <<"0", "-", "3">>
Aff2 == <<"2">>

AffBoth == [id \in Ids |-> IF id = Id16 THEN Aff03 ELSE Aff2]
AffOnly9 == [id \in {Id9} |-> Aff03]

\* What the two affinity scans of one update return: <<configured, effective>>
AffinityScans ==
    { <<AffBoth, AffOnly9>>, <<AffOnly9, EmptyMap>> }

\* What one affinity file may hold: "0-3\n", "2\n", or nothing readable
AffinityFiles == { << >>, << Aff03 \o <<LF>> >>, << Aff2 \o <<LF>> >> }

\* The entries /proc/irq may have: any of the IRQs, each with its two files
ProcIrqEntries ==
    UNION {[present -> [smp_affinity_list : AffinityFiles,
                        effective_affinity_list : AffinityFiles]] :
           present \in SUBSET Ids}

\* A /proc/irq that cannot be listed
NoProcIrq == [listable |-> FALSE, entries |-> EmptyMap]

ProcIrqDirs ==
    {NoProcIrq} \cup {[listable |-> TRUE, entries |-> e] : e \in ProcIrqEntries}

\* What the two affinity scans of one update return on a directory
ScansOf(dir) == { << get_affinity_map(dir), get_effective_affinity_map(dir) >> }

\* Sorting runs: three IRQs of one counter each, which takes one of two
\* values, so that the total deltas are 0 or a step that differs per IRQ
Id130 == <<"1", "3", "0">>

OrderIds == {Id9, Id16, Id130}

DeviceOf(id) ==
    CASE id = Id9 -> <<"a", "c", "p", "i">>
      [] id = Id16 -> <<"t", "i", "m", "e", "r">>
      [] id = Id130 -> <<"e", "t", "h", "0", "-", "r", "x", "-", "0">>

OrderCounts(id) ==
    CASE id = Id9 -> {10, 20}
      [] id = Id16 -> {10, 40}
      [] id = Id130 -> {10, 70}

OrderSnapshots ==
    UNION {{[id \in present |-> [counts |-> <<c[id]>>, name |-> DeviceOf(id)]] :
               c \in {f \in [present -> {10, 20, 40, 70}] :
                         \A id \in present : f[id] \in OrderCounts(id)}} :
           present \in SUBSET OrderIds}

\* The affinity scans of the sorting runs: IRQ 130 without a configured
\* entry, or no effective entry at all
OrderScans ==
    { << [id \in {Id9, Id16} |-> IF id = Id9 THEN Aff2 ELSE Aff03],
         [id \in {Id9, Id130} |-> IF id = Id9 THEN Aff03 ELSE Aff2] >>,
      << [id \in OrderIds |-> IF id = Id16 THEN Aff2 ELSE Aff03], EmptyMap >> }

\* Terminal heights a draw may see
TermHeights == {8, 9}

\* The terminal height of the runs without key input
PlainHeights == {24}

\* The scroll keys are modelled while the offset stays within this bound
MaxOffset == 10

\* How many Tab presses sort_trail remembers
MaxTrail == 5

(***************************************************************************)
(* main: App::default and the first sample                                 *)
(***************************************************************************)

NotParsed == [state |-> "pending", map |-> EmptyMap]

\* App::default(), before main calls update_data: main has enabled raw mode
\* and entered the alternate screen
Init ==
    /\ irq_data = EmptyMap
    /\ prev_irq_data = EmptyMap
    /\ deltas = << >>
    /\ per_cpu_deltas = EmptyMap
    /\ affinity_map = EmptyMap
    /\ effective_affinity_map = EmptyMap
    /\ selected_row = 0
    /\ sort_by = "Delta"
    /\ show_help = FALSE
    /\ show_irq_detail = FALSE
    /\ detail_irq_name = << >>
    /\ detail_scroll_offset = 0
    /\ running = TRUE
    /\ pc = "start"
    /\ size_height = 0
    /\ base_data = EmptyMap
    /\ older_ids = {}
    /\ sort_trail = << >>
    /\ content = << >>
    /\ parse_result = NotParsed
    /\ proc_irq = NoProcIrq
    /\ raw_mode = TRUE
    /\ alternate_screen = TRUE
    /\ exit_status = "none"
    /\ diagnostic = "none"
    /\ prev_stats = << >>
    /\ show_deltas = << >>

viewVars ==
    << selected_row, sort_by, show_help, show_irq_detail, detail_irq_name,
       detail_scroll_offset, running >>

dataVars ==
    << irq_data, prev_irq_data, per_cpu_deltas, affinity_map,
       effective_affinity_map, base_data, older_ids >>

\* Mutant of UpdateAndSort: the retained snapshot keeps the record of an
\* IRQ that the new snapshot lacks
UpdateAndSortKeepsGone(new_data, aff, eff, order, traced) ==
    /\ per_cpu_deltas' = PerCpuDeltas(prev_irq_data, new_data)
    /\ prev_irq_data' =
           [id \in DOMAIN new_data \cup DOMAIN prev_irq_data |->
               IF id \in DOMAIN new_data THEN new_data[id]
               ELSE prev_irq_data[id]]
    /\ irq_data' = new_data
    /\ affinity_map' = aff
    /\ effective_affinity_map' = eff
    /\ deltas' = sort_data(sort_by, aff, eff, new_data,
                           calculate_delta(irq_data, new_data, order))
    /\ base_data' = IF traced THEN irq_data ELSE base_data
    /\ older_ids' = IF traced THEN DOMAIN base_data ELSE older_ids

\* Mutant of UpdateAndSort: the retained previous snapshot is not replaced
UpdateAndSortStalePrev(new_data, aff, eff, order, traced) ==
    /\ per_cpu_deltas' = PerCpuDeltas(prev_irq_data, new_data)
    /\ prev_irq_data' = prev_irq_data
    /\ irq_data' = new_data
    /\ affinity_map' = aff
    /\ effective_affinity_map' = eff
    /\ deltas' = sort_data(sort_by, aff, eff, new_data,
                           calculate_delta(irq_data, new_data, order))
    /\ base_data' = IF traced THEN irq_data ELSE base_data
    /\ older_ids' = IF traced THEN DOMAIN base_data ELSE older_ids

\* update_data followed by sort_data, as main and run_app call them.
\* new_data is what read_interrupts returned, aff and eff what the two
\* affinity scans returned, order the iteration order of new_data; traced
\* says whether the history variables base_data and older_ids record the
\* call.
UpdateAndSort(new_data, aff, eff, order, traced) ==
    /\ per_cpu_deltas' = PerCpuDeltas(prev_irq_data, new_data)
    /\ prev_irq_data' = new_data
    /\ irq_data' = new_data
    /\ affinity_map' = aff
    /\ effective_affinity_map' = eff
    /\ deltas' = sort_data(sort_by, aff, eff, new_data,
                           calculate_delta(irq_data, new_data, order))
    /\ base_data' = IF traced THEN irq_data ELSE base_data
    /\ older_ids' = IF traced THEN DOMAIN base_data ELSE older_ids

Sample(snapshots, affinities, traced) ==
    \E new_data \in snapshots, scan \in affinities :
        \E order \in Orders(DOMAIN new_data) :
            UpdateAndSort(new_data, scan[1], scan[2], order, traced)

\* main: app.update_data()?; app.sort_data(); run_app(...)
Startup(snapshots, affinities, traced) ==
    /\ pc = "start"
    /\ Sample(snapshots, affinities, traced)
    /\ pc' = "draw"
    /\ UNCHANGED << viewVars, size_height, sort_trail, outsideVars >>

\* main: app.update_data()? when read_interrupts fails: main returns the
\* error at once, which the runtime prints to stderr before it exits with
\* a failure status
StartupFail ==
    /\ pc = "start"
    /\ pc' = "exited"
    /\ exit_status' = "failure"
    /\ diagnostic' = "stderr"
    /\ UNCHANGED << appVars, size_height, base_data, older_ids, sort_trail, parseVars,
                    showVars, proc_irq, raw_mode, alternate_screen >>

(***************************************************************************)
(* run_app: draw                                                           *)
(***************************************************************************)

\* show_irq_detail: max_scroll for an IRQ with total_cpus counters on a
\* terminal of the given height (layout: 3 rows header, 2 rows footer)
DetailMaxScroll(total_cpus, height) ==
    LET chunk_height == saturating_sub(height, 5)
        available_height == saturating_sub(chunk_height, 2)
        rows_per_column == saturating_sub(available_height, 1)
        cpus_per_row == 4
        grid_rows == (total_cpus + cpus_per_row - 1) \div cpus_per_row
        visible_rows == Min(rows_per_column, grid_rows)
    IN  saturating_sub(grid_rows, visible_rows)

\* show_irq_detail reaches its clamp
DetailShown ==
    /\ show_irq_detail
    /\ detail_irq_name # << >>
    /\ detail_irq_name[1] \in DOMAIN irq_data

\* Mutant of ClampScroll: the offset is left as the keys set it
ClampScrollNever(offset, max_scroll) == offset

\* app.detail_scroll_offset.min(max_scroll)
ClampScroll(offset, max_scroll) == Min(offset, max_scroll)

\* show_irq_detail: visible_rows for an IRQ with total_cpus counters on a
\* terminal of the given height
DetailVisibleRows(total_cpus, height) ==
    LET chunk_height == saturating_sub(height, 5)
        available_height == saturating_sub(chunk_height, 2)
        rows_per_column == saturating_sub(available_height, 1)
        cpus_per_row == 4
    IN  Min(rows_per_column, (total_cpus + cpus_per_row - 1) \div cpus_per_row)

\* show_irq_detail: the cpu_idx of every cell of the visible rows; a row
\* whose start_cpu is not below total_cpus ends the loop
DetailCells(total_cpus, offset, visible_rows) ==
    {(offset + row_idx) * 4 + col :
        row_idx \in {r \in 0..(visible_rows - 1) : (offset + r) * 4 < total_cpus},
        col \in 0..3}

\* Mutant of DetailCellHasDelta: the cell is filled for every CPU that has a
\* counter
DetailCellHasDeltaByCounts(cpu_idx, total_cpus, len) == cpu_idx < total_cpus

\* show_irq_detail: if cpu_idx < total_cpus && cpu_idx < per_cpu_deltas.len()
DetailCellHasDelta(cpu_idx, total_cpus, len) ==
    cpu_idx < total_cpus /\ cpu_idx < len

\* show_irq_detail: per_cpu_deltas[cpu_idx] is out of bounds in some cell
\* of the detail view drawn on a terminal of the given height
DetailPanics(height) ==
    /\ DetailShown
    /\ LET stats == irq_data[detail_irq_name[1]]
           total_cpus == Len(stats.counts)
           offset == ClampScroll(detail_scroll_offset,
                                 DetailMaxScroll(total_cpus, height))
           cells == GetOr(per_cpu_deltas, detail_irq_name[1], stats.counts)
       IN  \E cpu_idx \in DetailCells(total_cpus, offset,
                                      DetailVisibleRows(total_cpus, height)) :
               /\ DetailCellHasDelta(cpu_idx, total_cpus, Len(cells))
               /\ cpu_idx >= Len(cells)

\* ui: the view a draw renders, the detail view before the help overlay
\* and the help overlay before the main table
ui_view(detail, help) ==
    IF detail THEN "Detail" ELSE IF help THEN "Help" ELSE "Main"

\* ui: app.irq_data.get(irq).unwrap() panics on a row of the main table
TablePanics ==
    /\ ui_view(show_irq_detail, show_help) = "Main"
    /\ \E i \in 1..Len(deltas) : deltas[i][1] \notin DOMAIN irq_data

\* terminal.draw(|f| ui(f, &mut app))
Draw(heights) ==
    /\ pc = "draw"
    /\ \E h \in heights :
        /\ size_height' = h
        /\ detail_scroll_offset' =
              IF DetailShown
              THEN ClampScroll(detail_scroll_offset,
                       DetailMaxScroll(Len(irq_data[detail_irq_name[1]].counts), h))
              ELSE detail_scroll_offset
        /\ pc' = IF TablePanics \/ DetailPanics(h) THEN "panic" ELSE "poll"
    /\ UNCHANGED << dataVars, deltas, selected_row, sort_by, show_help,
                    show_irq_detail, detail_irq_name, running, sort_trail,
                    outsideVars >>

\* terminal.draw(...)? fails
DrawFail ==
    /\ pc = "draw"
    /\ pc' = "error"
    /\ UNCHANGED << appVars, size_height, base_data, older_ids, sort_trail, outsideVars >>

(***************************************************************************)
(* run_app: one input event                                                *)
(***************************************************************************)

\* What a key handler that only moves the cursor leaves alone
cursorFrame ==
    << dataVars, deltas, sort_by, show_help, show_irq_detail, detail_irq_name,
       detail_scroll_offset, running, size_height, sort_trail, outsideVars >>

\* What a key handler that only scrolls the detail view leaves alone
scrollFrame ==
    << dataVars, deltas, selected_row, sort_by, show_help, show_irq_detail,
       detail_irq_name, running, size_height, sort_trail, outsideVars >>

\* app.deltas.len().saturating_sub(1)
MaxRow(list) == saturating_sub(Len(list), 1)

\* poll timed out, or the event read was not a key event
NoEvent ==
    /\ pc = "poll"
    /\ pc' = "tick"
    /\ UNCHANGED << appVars, size_height, base_data, older_ids, sort_trail, outsideVars >>

\* crossterm::event::poll(timeout)? or event::read()? fails
PollFail ==
    /\ pc = "poll"
    /\ pc' = "error"
    /\ UNCHANGED << appVars, size_height, base_data, older_ids, sort_trail, outsideVars >>

\* KeyCode::Char('q') | KeyCode::Char('Q'), Ctrl+C
KeyQuit ==
    /\ pc = "poll"
    /\ running' = FALSE
    /\ pc' = "tick"
    /\ UNCHANGED << dataVars, deltas, selected_row, sort_by, show_help,
                    show_irq_detail, detail_irq_name, detail_scroll_offset,
                    size_height, sort_trail, outsideVars >>

\* The row KeyCode::Down moves to
DownRow(row, list) == IF row < MaxRow(list) THEN row + 1 ELSE row

KeyDown ==
    /\ pc = "poll"
    /\ selected_row' = DownRow(selected_row, deltas)
    /\ pc' = "tick"
    /\ UNCHANGED cursorFrame

KeyUp ==
    /\ pc = "poll"
    /\ selected_row' = IF selected_row > 0 THEN selected_row - 1 ELSE selected_row
    /\ pc' = "tick"
    /\ UNCHANGED cursorFrame

\* Mutant of PageDownRow: ten rows down, whatever the length of the list
PageDownRowUnclamped(row, list) == row + 10

\* The row KeyCode::PageDown moves to
PageDownRow(row, list) == Min(row + 10, MaxRow(list))

KeyPageDown ==
    /\ pc = "poll"
    /\ selected_row' = PageDownRow(selected_row, deltas)
    /\ pc' = "tick"
    /\ UNCHANGED cursorFrame

KeyPageUp ==
    /\ pc = "poll"
    /\ selected_row' = saturating_sub(selected_row, 10)
    /\ pc' = "tick"
    /\ UNCHANGED cursorFrame

KeyHome ==
    /\ pc = "poll"
    /\ selected_row' = 0
    /\ pc' = "tick"
    /\ UNCHANGED cursorFrame

KeyEnd ==
    /\ pc = "poll"
    /\ selected_row' = MaxRow(deltas)
    /\ pc' = "tick"
    /\ UNCHANGED cursorFrame

\* KeyCode::Tab: app.next_sort(); app.sort_data().  traced says whether the
\* history variable sort_trail records the step.
KeyTab(traced) ==
    /\ pc = "poll"
    /\ sort_by' = next_sort(sort_by)
    /\ deltas' = sort_data(next_sort(sort_by), affinity_map,
                           effective_affinity_map, irq_data, deltas)
    /\ sort_trail' = IF traced
                     THEN SubSeq(Append(sort_trail, sort_by),
                                 IF Len(sort_trail) >= MaxTrail THEN 2 ELSE 1,
                                 Len(sort_trail) + 1)
                     ELSE sort_trail
    /\ pc' = "tick"
    /\ UNCHANGED << dataVars, selected_row, show_help, show_irq_detail,
                    detail_irq_name, detail_scroll_offset, running,
                    size_height, outsideVars >>

\* KeyCode::Char('h') | KeyCode::Char('H')
KeyHelp ==
    /\ pc = "poll"
    /\ show_help' = ~show_help
    /\ pc' = "tick"
    /\ UNCHANGED << dataVars, deltas, selected_row, sort_by, show_irq_detail,
                    detail_irq_name, detail_scroll_offset, running,
                    size_height, sort_trail, outsideVars >>

\* Mutant of KeyEnter: the scroll offset of the detail view is not reset
KeyEnterKeepScroll ==
    /\ pc = "poll"
    /\ IF deltas # << >> /\ selected_row < Len(deltas)
       THEN /\ detail_irq_name' = << deltas[selected_row + 1][1] >>
            /\ show_irq_detail' = TRUE
            /\ detail_scroll_offset' = detail_scroll_offset
       ELSE UNCHANGED << detail_irq_name, show_irq_detail, detail_scroll_offset >>
    /\ pc' = "tick"
    /\ UNCHANGED << dataVars, deltas, selected_row, sort_by, show_help,
                    running, size_height, sort_trail, outsideVars >>

\* KeyCode::Enter
KeyEnter ==
    /\ pc = "poll"
    /\ IF deltas # << >> /\ selected_row < Len(deltas)
       THEN /\ detail_irq_name' = << deltas[selected_row + 1][1] >>
            /\ show_irq_detail' = TRUE
            /\ detail_scroll_offset' = 0
       ELSE UNCHANGED << detail_irq_name, show_irq_detail, detail_scroll_offset >>
    /\ pc' = "tick"
    /\ UNCHANGED << dataVars, deltas, selected_row, sort_by, show_help,
                    running, size_height, sort_trail, outsideVars >>

KeyEsc ==
    /\ pc = "poll"
    /\ show_irq_detail' = FALSE
    /\ detail_irq_name' = << >>
    /\ detail_scroll_offset' = 0
    /\ pc' = "tick"
    /\ UNCHANGED << dataVars, deltas, selected_row, sort_by, show_help,
                    running, size_height, sort_trail, outsideVars >>

\* KeyCode::Char('j') | KeyCode::Char('J')
KeyJ ==
    /\ pc = "poll"
    /\ show_irq_detail => detail_scroll_offset + 1 <= MaxOffset
    /\ detail_scroll_offset' =
          IF show_irq_detail THEN detail_scroll_offset + 1
          ELSE detail_scroll_offset
    /\ pc' = "tick"
    /\ UNCHANGED scrollFrame

\* KeyCode::Char('k') | KeyCode::Char('K')
KeyK ==
    /\ pc = "poll"
    /\ detail_scroll_offset' =
          IF show_irq_detail THEN saturating_sub(detail_scroll_offset, 1)
          ELSE detail_scroll_offset
    /\ pc' = "tick"
    /\ UNCHANGED scrollFrame

\* KeyCode::Char('d') | KeyCode::Char('D')
KeyD ==
    /\ pc = "poll"
    /\ show_irq_detail => detail_scroll_offset + 10 <= MaxOffset
    /\ detail_scroll_offset' =
          IF show_irq_detail THEN detail_scroll_offset + 10
          ELSE detail_scroll_offset
    /\ pc' = "tick"
    /\ UNCHANGED scrollFrame

\* KeyCode::Char('u') | KeyCode::Char('U')
KeyU ==
    /\ pc = "poll"
    /\ detail_scroll_offset' =
          IF show_irq_detail THEN saturating_sub(detail_scroll_offset, 10)
          ELSE detail_scroll_offset
    /\ pc' = "tick"
    /\ UNCHANGED scrollFrame

(***************************************************************************)
(* run_app: the tick and the end of the iteration                          *)
(***************************************************************************)

\* Mutant of AfterTick: the loop has no break
AfterTickNoBreak == "draw"

\* if !app.running { break }
AfterTick == IF running THEN "draw" ELSE "done"

\* last_tick.elapsed() >= tick_rate: update_data, sort_data
Tick(snapshots, affinities, traced) ==
    /\ pc = "tick"
    /\ Sample(snapshots, affinities, traced)
    /\ pc' = AfterTick
    /\ UNCHANGED << viewVars, size_height, sort_trail, outsideVars >>

\* the tick interval has not elapsed
NoTick ==
    /\ pc = "tick"
    /\ pc' = AfterTick
    /\ UNCHANGED << appVars, size_height, base_data, older_ids, sort_trail, outsideVars >>

\* app.update_data()? when read_interrupts fails
TickFail ==
    /\ pc = "tick"
    /\ pc' = "error"
    /\ UNCHANGED << appVars, size_height, base_data, older_ids, sort_trail, outsideVars >>

(***************************************************************************)
(* main: after run_app has returned                                        *)
(***************************************************************************)

\* disable_raw_mode()?; execute!(.., LeaveAlternateScreen)?;
\* terminal.show_cursor()?; if let Err(err) = res { println!(..) }; Ok(())
\* pc is "error" when run_app returned an error and "done" when it returned
\* Ok.
MainReturn ==
    /\ pc \in {"done", "error"}
    /\ raw_mode' = FALSE
    /\ alternate_screen' = FALSE
    /\ diagnostic' = IF pc = "error" THEN "stdout" ELSE "none"
    /\ exit_status' = "success"
    /\ pc' = "exited"
    /\ UNCHANGED << appVars, size_height, base_data, older_ids, sort_trail, parseVars,
                    showVars, proc_irq >>

\* One of the three restoring calls fails and main returns its error, which
\* the runtime prints to stderr; the error of run_app is dropped unprinted
RestoreFail ==
    /\ pc \in {"done", "error"}
    /\ \E failed \in {"disable_raw_mode", "LeaveAlternateScreen", "show_cursor"} :
           /\ raw_mode' = (failed = "disable_raw_mode")
           /\ alternate_screen' = (failed # "show_cursor")
    /\ diagnostic' = "stderr"
    /\ exit_status' = "failure"
    /\ pc' = "exited"
    /\ UNCHANGED << appVars, size_height, base_data, older_ids, sort_trail, parseVars,
                    showVars, proc_irq >>

(***************************************************************************)
(* main: the show mode (Commands::Show)                                    *)
(***************************************************************************)

\* The counts the IRQ shown may have in one sample
ShowCounts == VecsUpTo(MaxCpus)

\* The heights term_size::dimensions() may report, 24 being also the default
\* when it reports none
ShowHeights == {5, 24}

\* curr - prev on u64 in a build without overflow checks: the difference
\* modulo 2^64.  A u64 of 2^63 or more is written as the negative number
\* congruent to it, so the wrapped difference of curr < prev is curr - prev.
wrapping_sub(curr, prev) == curr - prev

\* zip(curr, prev).map(|(curr, prev)| curr - prev)
ShowDeltas(curr, prev) ==
    [i \in 1..Min(Len(curr), Len(prev)) |-> wrapping_sub(curr[i], prev[i])]

\* curr - prev overflows for some CPU
ShowOverflows(curr, prev) ==
    \E i \in 1..Min(Len(curr), Len(prev)) : curr[i] < prev[i]

\* One round of the loop of the show mode, on a terminal of at least four
\* rows: read_interrupts()?.remove(&irq_name) gives the counts curr, the
\* deltas against PREV_STATS are computed, PREV_STATS is replaced, the
\* height of the terminal is read and the deltas are printed.  Where
\* curr - prev overflows, a build with overflow checks panics inside the
\* closure and a build without them wraps.
ShowSample ==
    /\ pc = "show"
    /\ \E curr \in ShowCounts, h \in ShowHeights :
           IF prev_stats = << >>
           THEN /\ show_deltas' = [i \in 1..Len(curr) |-> 0]
                /\ prev_stats' = << curr >>
                /\ size_height' = h
                /\ pc' = "show"
           ELSE \/ /\ ShowOverflows(curr, prev_stats[1])
                   /\ pc' = "panic"
                   /\ UNCHANGED << showVars, size_height >>
                \/ /\ show_deltas' = ShowDeltas(curr, prev_stats[1])
                   /\ prev_stats' = << curr >>
                   /\ size_height' = h
                   /\ pc' = "show"
    /\ UNCHANGED << appVars, base_data, older_ids, sort_trail,
                    parseVars, proc_irq, mainVars >>

\* read_interrupts()? fails, or the IRQ is not in the snapshot: main returns
\* the error, which the runtime prints to stderr
ShowFail ==
    /\ pc = "show"
    /\ pc' = "exited"
    /\ exit_status' = "failure"
    /\ diagnostic' = "stderr"
    /\ UNCHANGED << appVars, size_height, base_data, older_ids, sort_trail,
                    parseVars, proc_irq, raw_mode, alternate_screen, showVars >>

(***************************************************************************)
(* Specifications                                                          *)
(***************************************************************************)

\* The interactive program with every key, on coarse snapshots
Next ==
    \/ Startup(UiSnapshots, AffinityScans, FALSE)
    \/ StartupFail
    \/ Draw(TermHeights)
    \/ DrawFail
    \/ NoEvent
    \/ PollFail
    \/ KeyQuit
    \/ KeyDown
    \/ KeyUp
    \/ KeyPageDown
    \/ KeyPageUp
    \/ KeyHome
    \/ KeyEnd
    \/ KeyTab(FALSE)
    \/ KeyHelp
    \/ KeyEnter
    \/ KeyEsc
    \/ KeyJ
    \/ KeyK
    \/ KeyD
    \/ KeyU
    \/ Tick(UiSnapshots, AffinityScans, FALSE)
    \/ NoTick
    \/ TickFail

Spec == Init /\ [][Next]_vars

\* The program without key input, on the tracker's snapshots, recording
\* base_data
NextDelta ==
    \/ Startup(TrackerSnapshots, AffinityScans, TRUE)
    \/ Draw(PlainHeights)
    \/ NoEvent
    \/ Tick(TrackerSnapshots, AffinityScans, TRUE)

SpecDelta == Init /\ [][NextDelta]_vars

\* The program with Tab as its only key, recording sort_trail
NextSort ==
    \/ Startup(TrackerSnapshots, AffinityScans, FALSE)
    \/ Draw(PlainHeights)
    \/ NoEvent
    \/ KeyTab(TRUE)
    \/ Tick(TrackerSnapshots, AffinityScans, FALSE)
    \/ NoTick

SpecSort == Init /\ [][NextSort]_vars

\* The program with Tab as its only key on the sorting runs
NextOrder ==
    \/ Startup(OrderSnapshots, OrderScans, FALSE)
    \/ Draw(PlainHeights)
    \/ NoEvent
    \/ KeyTab(FALSE)
    \/ Tick(OrderSnapshots, OrderScans, FALSE)
    \/ NoTick

SpecOrder == Init /\ [][NextOrder]_vars

\* The program with Enter as its only key on the hot-plug runs, whose
\* IRQ 16 gains and loses counters, recording base_data
NextHotplug ==
    \/ Startup(HotplugSnapshots, AffinityScans, TRUE)
    \/ Draw(TermHeights)
    \/ NoEvent
    \/ KeyEnter
    \/ Tick(HotplugSnapshots, AffinityScans, TRUE)

SpecHotplug == Init /\ [][NextHotplug]_vars

\* main from the first sample to the exit of the process, with quit as its
\* only key
NextMain ==
    \/ Startup(UiSnapshots, AffinityScans, FALSE)
    \/ StartupFail
    \/ Draw(PlainHeights)
    \/ DrawFail
    \/ NoEvent
    \/ PollFail
    \/ KeyQuit
    \/ Tick(UiSnapshots, AffinityScans, FALSE)
    \/ NoTick
    \/ TickFail
    \/ MainReturn
    \/ RestoreFail

SpecMain == Init /\ [][NextMain]_vars

\* The program without key input on every /proc/irq directory, the same
\* directory at every sample of a run
InitAffinity ==
    /\ irq_data = EmptyMap
    /\ prev_irq_data = EmptyMap
    /\ deltas = << >>
    /\ per_cpu_deltas = EmptyMap
    /\ affinity_map = EmptyMap
    /\ effective_affinity_map = EmptyMap
    /\ selected_row = 0
    /\ sort_by = "Delta"
    /\ show_help = FALSE
    /\ show_irq_detail = FALSE
    /\ detail_irq_name = << >>
    /\ detail_scroll_offset = 0
    /\ running = TRUE
    /\ pc = "start"
    /\ size_height = 0
    /\ base_data = EmptyMap
    /\ older_ids = {}
    /\ sort_trail = << >>
    /\ content = << >>
    /\ parse_result = NotParsed
    /\ proc_irq \in ProcIrqDirs
    /\ raw_mode = TRUE
    /\ alternate_screen = TRUE
    /\ exit_status = "none"
    /\ diagnostic = "none"
    /\ prev_stats = << >>
    /\ show_deltas = << >>

NextAffinity ==
    \/ Startup(UiSnapshots, ScansOf(proc_irq), FALSE)
    \/ StartupFail
    \/ Draw(PlainHeights)
    \/ NoEvent
    \/ Tick(UiSnapshots, ScansOf(proc_irq), FALSE)
    \/ TickFail

SpecAffinity == InitAffinity /\ [][NextAffinity]_vars

\* The show mode: the terminal is left as it is
InitShow ==
    /\ irq_data = EmptyMap
    /\ prev_irq_data = EmptyMap
    /\ deltas = << >>
    /\ per_cpu_deltas = EmptyMap
    /\ affinity_map = EmptyMap
    /\ effective_affinity_map = EmptyMap
    /\ selected_row = 0
    /\ sort_by = "Delta"
    /\ show_help = FALSE
    /\ show_irq_detail = FALSE
    /\ detail_irq_name = << >>
    /\ detail_scroll_offset = 0
    /\ running = TRUE
    /\ pc = "show"
    /\ size_height = 0
    /\ base_data = EmptyMap
    /\ older_ids = {}
    /\ sort_trail = << >>
    /\ content = << >>
    /\ parse_result = NotParsed
    /\ proc_irq = NoProcIrq
    /\ raw_mode = FALSE
    /\ alternate_screen = FALSE
    /\ exit_status = "none"
    /\ diagnostic = "none"
    /\ prev_stats = << >>
    /\ show_deltas = << >>

NextShow ==
    \/ ShowSample
    \/ ShowFail

SpecShow == InitShow /\ [][NextShow]_vars

(***************************************************************************)
(* The parser on its own: read_interrupts applied to bounded inputs        *)
(***************************************************************************)

\* Body lines: every string of up to MaxLineLen bytes of Alphabet, and the
\* sample lines
MaxLineLen == 5

Alphabet == {"1", ",", ":", " ", "x"}

FreeLines == UNION {[1..n -> Alphabet] : n \in 0..MaxLineLen}

\* "130: 5,000 3,200 eth0-rx-0"
Line130 ==
    << "1", "3", "0", ":", " ", "5", ",", "0", "0", "0", " ", "3", ",", "2",
       "0", "0", " ", "e", "t", "h", "0", "-", "r", "x", "-", "0" >>

\* " 16:  120 45 timer"
Line16 ==
    << " ", "1", "6", ":", " ", " ", "1", "2", "0", " ", "4", "5", " ", "t",
       "i", "m", "e", "r" >>

\* "16 120 timer", a line without a colon
LineNoColon ==
    << "1", "6", " ", "1", "2", "0", " ", "t", "i", "m", "e", "r" >>

\* "1: 7 acpi", the id of some free lines
Line1 == << "1", ":", " ", "7", " ", "a", "c", "p", "i" >>

SampleLines == {<< >>, Line130, Line16, LineNoColon, Line1}

\* "CPU0 CPU1"
HeaderCpus == << "C", "P", "U", "0", " ", "C", "P", "U", "1" >>

\* "9: 4 x", a header line that reads like a record
HeaderRecord == << "9", ":", " ", "4", " ", "x" >>

Headers == {HeaderCpus, HeaderRecord}

\* A header line and two body lines; tail is << >> or a final line feed
FileOf(header, a, b, tail) == header \o <<LF>> \o a \o <<LF>> \o b \o tail

\* The inputs: a free line before or after a sample line, or two sample lines
IsInput(text) ==
    \/ \E a \in FreeLines, b \in SampleLines :
           text = FileOf(HeaderRecord, a, b, << >>)
    \/ \E a \in SampleLines, b \in FreeLines :
           text = FileOf(HeaderCpus, a, b, <<LF>>)
    \/ \E h \in Headers, a \in SampleLines, b \in SampleLines :
           text = FileOf(h, a, b, <<LF>>)

InitParse ==
    /\ irq_data = EmptyMap
    /\ prev_irq_data = EmptyMap
    /\ deltas = << >>
    /\ per_cpu_deltas = EmptyMap
    /\ affinity_map = EmptyMap
    /\ effective_affinity_map = EmptyMap
    /\ selected_row = 0
    /\ sort_by = "Delta"
    /\ show_help = FALSE
    /\ show_irq_detail = FALSE
    /\ detail_irq_name = << >>
    /\ detail_scroll_offset = 0
    /\ running = TRUE
    /\ pc = "parse"
    /\ size_height = 0
    /\ base_data = EmptyMap
    /\ older_ids = {}
    /\ sort_trail = << >>
    /\ IsInput(content)
    /\ parse_result = NotParsed
    /\ proc_irq = NoProcIrq
    /\ raw_mode = TRUE
    /\ alternate_screen = TRUE
    /\ exit_status = "none"
    /\ diagnostic = "none"
    /\ prev_stats = << >>
    /\ show_deltas = << >>

\* let new_data = read_interrupts(): Ok(irq_map), or a panic
ReadInterrupts ==
    /\ pc = "parse"
    /\ LET r == read_interrupts(content)
       IN  parse_result' = [state |-> IF r.panicked THEN "panicked" ELSE "returned",
                            map |-> r.map]
    /\ pc' = "parsed"
    /\ UNCHANGED << appVars, size_height, base_data, older_ids, sort_trail, content,
                    proc_irq, mainVars, showVars >>

NextParse == ReadInterrupts

SpecParse == InitParse /\ [][NextParse]_vars

(***************************************************************************)
(* Properties of the parser (SpecParse)                                    *)
(***************************************************************************)

\* The lines of a text: the pieces between line feeds
RECURSIVE LinesOf(_, _, _)
LinesOf(text, i, cur) ==
    IF i > Len(text) THEN <<cur>>
    ELSE IF text[i] = LF THEN <<cur>> \o LinesOf(text, i + 1, << >>)
    ELSE LinesOf(text, i + 1, Append(cur, text[i]))

\* The lines after the header line
BodyLines(text) == Tail(LinesOf(text, 1, << >>))

RECURSIVE JoinLines(_)
JoinLines(lines) ==
    IF lines = << >> THEN << >>
    ELSE IF Len(lines) = 1 THEN lines[1]
    ELSE lines[1] \o <<LF>> \o JoinLines(Tail(lines))

RECURSIVE KeepLines(_, _)
KeepLines(lines, keep) ==
    IF lines = << >> THEN << >>
    ELSE IF Head(lines) \in keep
         THEN <<Head(lines)>> \o KeepLines(Tail(lines), keep)
         ELSE KeepLines(Tail(lines), keep)

HasColon(line) == \E i \in 1..Len(line) : line[i] = ":"

\* 1-based place of the first colon of a line that has one
ColonAt(line) ==
    CHOOSE i \in 1..Len(line) :
        line[i] = ":" /\ \A j \in 1..(i - 1) : line[j] # ":"

\* The id field of a line with a colon: the bytes before it, trimmed
IdField(line) == Trim(SubSeq(line, 1, ColonAt(line) - 1))

\* The whitespace-separated tokens of a text
RECURSIVE Fields(_, _, _)
Fields(text, i, cur) ==
    IF i > Len(text) THEN (IF cur = << >> THEN << >> ELSE <<cur>>)
    ELSE IF text[i] = " "
         THEN (IF cur = << >> THEN << >> ELSE <<cur>>) \o Fields(text, i + 1, << >>)
         ELSE Fields(text, i + 1, Append(cur, text[i]))

\* A token made of digits and commas only, with at least one digit
IsDigitRun(tok) ==
    /\ \A i \in 1..Len(tok) : tok[i] \in Digits \cup {","}
    /\ \E i \in 1..Len(tok) : tok[i] \in Digits

\* How many tokens at the front of toks are digit runs
RECURSIVE LeadingRuns(_)
LeadingRuns(toks) ==
    IF toks # << >> /\ IsDigitRun(Head(toks)) THEN 1 + LeadingRuns(Tail(toks))
    ELSE 0

\* The decimal number formed by the digits of a token
RECURSIVE DecimalOf(_)
DecimalOf(tok) ==
    IF tok = << >> THEN 0
    ELSE IF tok[Len(tok)] \in Digits
         THEN 10 * DecimalOf(SubSeq(tok, 1, Len(tok) - 1))
                  + (CHOOSE d \in 0..9 :
                        <<"0", "1", "2", "3", "4", "5", "6", "7", "8", "9">>[d + 1]
                            = tok[Len(tok)])
         ELSE DecimalOf(SubSeq(tok, 1, Len(tok) - 1))

Parsed == pc = "parsed"
Returned == pc = "parsed" /\ parse_result.state = "returned"

\* C4: a non-empty body line without a colon is skipped: read_interrupts
\* returns, and returns the records of the text without such lines.
C4_NoColonLineSkipped ==
    LET body == BodyLines(content)
        colonless == {l \in {body[i] : i \in 1..Len(body)} :
                         l # << >> /\ ~HasColon(l)}
        lines == LinesOf(content, 1, << >>)
        others == {lines[i] : i \in 1..Len(lines)} \ colonless
    IN  (Parsed /\ colonless # {}) =>
            /\ parse_result.state = "returned"
            /\ parse_result.map =
                   read_interrupts(JoinLines(KeepLines(lines, others))).map

\* C5: every record read_interrupts returns has a non-empty id, a non-empty
\* description and at least one counter, and comes from a non-blank line
\* after the header line.
C5_RecordsWellFormed ==
    Returned =>
        \A id \in DOMAIN parse_result.map :
            /\ id # << >>
            /\ parse_result.map[id].name # << >>
            /\ parse_result.map[id].counts # << >>
            /\ \E i \in 1..Len(BodyLines(content)) :
                   LET line == BodyLines(content)[i]
                   IN  line # << >> /\ HasColon(line) /\ IdField(line) = id

\* The case of C6: a line "<id>: <run> ... <run> <description>" whose
\* description starts with neither a digit nor a comma
CounterLine(line) ==
    /\ HasColon(line)
    /\ ColonAt(line) > 1
    /\ LET toks == Fields(SubSeq(line, ColonAt(line) + 1, Len(line)), 1, << >>)
           k == LeadingRuns(toks)
       IN  /\ k >= 1
           /\ k < Len(toks)
           /\ toks[k + 1][1] \notin Digits \cup {","}

\* C6: when read_interrupts returns, the last line of each id that has the
\* form "<id>: <run> ... <run> <description>" yields one counter for each
\* whitespace-separated run of digits and commas, its value the decimal
\* number formed by the digits of the run, and the remaining tokens as the
\* description.
C6_CommaRunsAreCounters ==
    Returned =>
        LET body == BodyLines(content)
        IN  \A i \in 1..Len(body) :
                (/\ CounterLine(body[i])
                 /\ \A j \in (i + 1)..Len(body) :
                        HasColon(body[j]) => IdField(body[j]) # IdField(body[i]))
                => LET toks == Fields(SubSeq(body[i], ColonAt(body[i]) + 1,
                                             Len(body[i])), 1, << >>)
                       k == LeadingRuns(toks)
                       id == IdField(body[i])
                   IN  /\ id \in DOMAIN parse_result.map
                       /\ parse_result.map[id].counts =
                              [n \in 1..k |-> DecimalOf(toks[n])]
                       /\ Fields(parse_result.map[id].name, 1, << >>) =
                              SubSeq(toks, k + 1, Len(toks))

\* C6 witness: "130: 5,000 3,200 eth0-rx-0" was read as 5000, 3200, eth0-rx-0
C6_Witness ==
    /\ Returned
    /\ <<"1", "3", "0">> \in DOMAIN parse_result.map
    /\ parse_result.map[<<"1", "3", "0">>] =
           [counts |-> <<5000, 3200>>,
            name |-> <<"e", "t", "h", "0", "-", "r", "x", "-", "0">>]

(***************************************************************************)
(* Properties of the delta tracker (SpecDelta)                             *)
(***************************************************************************)

\* The IRQs of the current snapshot that the previous one had too
SeenBefore == DOMAIN irq_data \cap DOMAIN base_data

\* The delta of one counter: curr - prev, or 0 when the counter fell
CounterDelta(prev, curr) == IF curr >= prev THEN curr - prev ELSE 0

\* The CPU indexes both samples of an IRQ have
SharedCpus(id) ==
    1..Min(Len(irq_data[id].counts), Len(base_data[id].counts))

RECURSIVE SumOver(_, _)
SumOver(f, indexes) ==
    IF indexes = {} THEN 0
    ELSE LET i == CHOOSE x \in indexes : TRUE
         IN  f[i] + SumOver(f, indexes \ {i})

\* The entries of the total-delta list for one IRQ
EntriesOf(id) == {i \in 1..Len(deltas) : deltas[i][1] = id}

\* C1: for an IRQ in both samples, the per-CPU delta of every CPU index both
\* samples have is curr - prev when curr >= prev and 0 when curr < prev;
\* and so is the total delta of an IRQ with a single counter.
C1_DeltaSaturates ==
    \A id \in SeenBefore :
        /\ \A i \in SharedCpus(id) :
               per_cpu_deltas[id][i] =
                   CounterDelta(base_data[id].counts[i], irq_data[id].counts[i])
        /\ (Len(irq_data[id].counts) = 1 /\ Len(base_data[id].counts) = 1) =>
               \A e \in EntriesOf(id) :
                   deltas[e][2] =
                       CounterDelta(base_data[id].counts[1], irq_data[id].counts[1])

\* C1 witness: IRQ 16 fell on CPU0 (150 to 120) and rose on CPU1 (45 to 60),
\* IRQ 9 fell (150 to 120)
C1_Witness ==
    /\ Id16 \in SeenBefore /\ Id9 \in SeenBefore
    /\ base_data[Id16].counts = <<150, 45>>
    /\ irq_data[Id16].counts = <<120, 60>>
    /\ per_cpu_deltas[Id16] = <<0, 15>>
    /\ base_data[Id9].counts = <<150>>
    /\ irq_data[Id9].counts = <<120>>
    /\ \E e \in EntriesOf(Id9) : deltas[e][2] = 0

\* C2: the total-delta list has exactly one entry for every IRQ in both the
\* previous and the current snapshot, and no other entry; the value is the
\* sum over the CPU indexes of the saturating differences.
C2_TotalDeltaList ==
    /\ \A i \in 1..Len(deltas) : deltas[i][1] \in SeenBefore
    /\ \A id \in SeenBefore :
           /\ Cardinality(EntriesOf(id)) = 1
           /\ \A e \in EntriesOf(id) :
                  deltas[e][2] =
                      SumOver([i \in SharedCpus(id) |->
                                  CounterDelta(base_data[id].counts[i],
                                               irq_data[id].counts[i])],
                              SharedCpus(id))

\* C2 witness: "16: 120 45 timer" then "16: 150 60 timer" gives 45
C2_Witness ==
    /\ Id16 \in SeenBefore
    /\ base_data[Id16].counts = <<120, 45>>
    /\ irq_data[Id16].counts = <<150, 60>>
    /\ \E e \in EntriesOf(Id16) : deltas[e] = <<Id16, 45>>

\* C3: an IRQ in the current sample and not in the previous one has no
\* entry in the total-delta list, and its per-CPU delta vector is its
\* current counts.
C3_FirstSeenIrq ==
    \A id \in DOMAIN irq_data \ DOMAIN base_data :
        /\ EntriesOf(id) = {}
        /\ id \in DOMAIN per_cpu_deltas
        /\ per_cpu_deltas[id] = irq_data[id].counts

\* C3 witness: on a later tick IRQ 9 appears beside IRQ 16, which was there
C3_Witness ==
    /\ Id16 \in SeenBefore
    /\ Id9 \in DOMAIN irq_data \ DOMAIN base_data
    /\ per_cpu_deltas[Id9] = <<120>>
    /\ Len(deltas) = 1

(***************************************************************************)
(* Properties of the interactive loop (Spec, SpecSort)                     *)
(***************************************************************************)

\* C7: the cursor starts at 0 on an empty list; a key event, which never
\* changes the length of the list, leaves a cursor that was within
\* [0, len-1] (0 for an empty list) within it, and opens the detail view
\* only on a row of the list.
C7_CursorStaysInRange ==
    /\ (selected_row = 0 /\ deltas = << >>)
    /\ [][(pc = "poll" /\ selected_row <= MaxRow(deltas))
            => /\ Len(deltas') = Len(deltas)
               /\ selected_row' >= 0
               /\ selected_row' <= MaxRow(deltas')
               /\ (show_irq_detail' /\ detail_irq_name' # detail_irq_name)
                      => selected_row < Len(deltas)]_vars

\* C7 witness: the cursor was moved to the last of two rows
C7_Witness ==
    /\ pc = "tick"
    /\ Len(deltas) = 2
    /\ selected_row = 1

\* C8 as stated: whenever the detail view of an IRQ of the snapshot is
\* open, the scroll offset is at most max_scroll for the height last drawn.
C8_ScrollAlwaysClamped ==
    DetailShown =>
        detail_scroll_offset <=
            DetailMaxScroll(Len(irq_data[detail_irq_name[1]].counts), size_height)

\* C8 amended: right after a draw of the detail view of an IRQ of the
\* snapshot, the scroll offset is within [0, max_scroll] for the CPU count
\* and the terminal height of that draw.
C8_ScrollClampedAfterDraw ==
    (pc = "poll" /\ DetailShown) =>
        /\ detail_scroll_offset >= 0
        /\ detail_scroll_offset <=
               DetailMaxScroll(Len(irq_data[detail_irq_name[1]].counts),
                               size_height)

\* C8 witness: five CPUs on a terminal of height 8 give max_scroll 2, and
\* the draw left the offset there
C8_Witness ==
    /\ pc = "poll"
    /\ DetailShown
    /\ Len(irq_data[detail_irq_name[1]].counts) = 5
    /\ size_height = 8
    /\ detail_scroll_offset = 2

\* C9 as stated: a Tab moves total-delta to by-id, by-id to configured
\* affinity, then effective affinity, device, and back to total-delta.
C9_RotationAsStated ==
    sort_trail # << >> =>
        sort_by = next_sort_id_second(sort_trail[Len(sort_trail)])

\* C9 amended: a Tab moves total-delta to configured affinity, then to
\* effective affinity, device, id and back to total-delta; the first Tab
\* of a run is pressed on total-delta and selects configured affinity.
C9_Rotation ==
    sort_trail # << >> =>
        /\ <<sort_trail[Len(sort_trail)], sort_by>> \in
               { <<"Delta", "Affinity">>,
                 <<"Affinity", "EffectiveAffinity">>,
                 <<"EffectiveAffinity", "Device">>,
                 <<"Device", "Irq">>,
                 <<"Irq", "Delta">> }
        /\ Len(sort_trail) = 1 => sort_trail[1] = "Delta" /\ sort_by = "Affinity"

\* C9 witness: the first Tab has been pressed
C9_Witness == Len(sort_trail) = 1 /\ sort_by = "Affinity"

\* C10: the key i Tabs ago is the current key exactly when i = 5.
C10_FiveTabsCycle ==
    \A i \in 1..Len(sort_trail) :
        (sort_trail[Len(sort_trail) - i + 1] = sort_by) <=> (i = 5)

\* C10 witness: five Tabs after by-id the key is by-id again
C10_Witness ==
    /\ Len(sort_trail) >= 5
    /\ sort_trail[Len(sort_trail) - 4] = "Irq"
    /\ sort_by = "Irq"

(***************************************************************************)
(* Properties of the view state machine (Spec)                             *)
(***************************************************************************)

\* C11: a key event handled while the help overlay is open closes it,
\* whichever key it is (a step of the input stage that changes the App is
\* the handling of a key); and the toggle-help key opens the overlay when
\* it is closed.
C11_AnyKeyClosesHelp ==
    [][/\ (pc = "poll" /\ show_help /\ appVars' # appVars) => ~show_help'
       /\ (KeyHelp /\ ~show_help) => show_help']_vars

\* The part of the view state Enter and Escape write
detailVars == << show_irq_detail, detail_irq_name, detail_scroll_offset >>

\* C12: Enter on an empty total-delta list leaves the view state unchanged;
\* when Enter changes the view, the list is non-empty, the detail view is
\* open on the id of the row at the cursor and the scroll offset is 0; no
\* step opens the detail view on an empty list; and the list is empty until
\* a tick fills it, so the detail view is never opened before the second
\* sample.
C12_EnterOpensDetail ==
    [][/\ (KeyEnter /\ deltas = << >>) => UNCHANGED viewVars
       /\ (KeyEnter /\ detailVars' # detailVars) =>
              /\ deltas # << >>
              /\ selected_row < Len(deltas)
              /\ show_irq_detail'
              /\ detail_irq_name' = << deltas[selected_row + 1][1] >>
              /\ detail_scroll_offset' = 0
              /\ UNCHANGED << selected_row, sort_by, show_help, running >>
       /\ (~show_irq_detail /\ show_irq_detail') => deltas # << >>
       /\ (deltas = << >> /\ deltas' # << >>) => pc = "tick"]_vars

\* C12 witness: Enter on the second of two rows has opened the detail view
\* of that row at offset 0
C12_Witness ==
    /\ pc = "tick"
    /\ Len(deltas) = 2
    /\ selected_row = 1
    /\ show_irq_detail
    /\ detail_irq_name = << deltas[2][1] >>
    /\ detail_scroll_offset = 0

\* C13: an Escape step taken while the detail view is open leaves the main
\* view as the one the next draw renders, clears the drilled-down id,
\* resets the scroll offset to 0 and leaves the cursor and the sort key
\* unchanged.
C13_EscapeReturnsToMain ==
    [][(KeyEsc /\ show_irq_detail) =>
           /\ ui_view(show_irq_detail', show_help') = "Main"
           /\ detail_irq_name' = << >>
           /\ detail_scroll_offset' = 0
           /\ UNCHANGED << selected_row, sort_by >>]_vars

\* C14: the quit key is handled whenever the loop reads input, whatever the
\* overlay flags are; handling it clears running; and once running is
\* clear the loop neither draws nor reads input again: the step after the
\* tick stage leaves the loop.
C14_QuitEndsLoop ==
    /\ [](pc = "poll" => ENABLED KeyQuit)
    /\ [](~running => pc \notin {"draw", "poll"})
    /\ [][/\ KeyQuit => (~running' /\ pc' = "tick")
          /\ (~running /\ pc = "tick") => pc' \in {"done", "error"}]_vars

\* C14 witness: the loop was left by a quit with both overlay flags set
C14_Witness ==
    /\ pc = "done"
    /\ ~running
    /\ show_help
    /\ show_irq_detail

(***************************************************************************)
(* Properties of what a render sees (Spec)                                 *)
(***************************************************************************)

\* The snapshot, the deltas and the affinity maps belong together
ConsistentTriple ==
    /\ \A i \in 1..Len(deltas) :
           /\ deltas[i][1] \in DOMAIN irq_data
           /\ deltas[i][1] \in DOMAIN per_cpu_deltas
    /\ DOMAIN per_cpu_deltas = DOMAIN irq_data
    /\ << affinity_map, effective_affinity_map >> \in AffinityScans

\* C15: whenever the loop is about to draw or has just drawn, every id of
\* the total-delta list has a record in the snapshot and a per-CPU vector,
\* the per-CPU map has exactly the ids of the snapshot and the two affinity
\* maps are those of one update; the table render never misses a record;
\* and a sample that fails leaves the whole App unchanged.
C15_RenderSeesConsistentTriple ==
    /\ [](pc \in {"draw", "poll"} => ConsistentTriple)
    /\ [](pc # "panic")
    /\ [][((pc = "tick" /\ pc' = "error") \/ (pc = "start" /\ pc' = "exited"))
              => UNCHANGED appVars]_vars

\* C15 witness: the main table was drawn with two rows after a tick that
\* found both IRQs again
C15_Witness ==
    /\ pc = "poll"
    /\ ui_view(show_irq_detail, show_help) = "Main"
    /\ Len(deltas) = 2
    /\ DOMAIN irq_data = Ids
    /\ affinity_map = AffBoth

(***************************************************************************)
(* Properties of the exit of the process (SpecMain)                        *)
(***************************************************************************)

\* C16: when the process exits after a fatal condition (the first sample
\* failed, or run_app returned an error) it has printed a diagnostic and
\* its status is a failure; a status of success follows only a loop left
\* by a quit.
C16_FatalExitsNonZero ==
    [][(pc # "exited" /\ pc' = "exited") =>
           /\ pc \in {"start", "error"} =>
                  (diagnostic' # "none" /\ exit_status' = "failure")
           /\ exit_status' = "success" => (pc = "done" /\ ~running)]_vars

(***************************************************************************)
(* Properties of the affinity resolver (SpecAffinity)                      *)
(***************************************************************************)

\* The file of the given kind of an IRQ can be read
FileReadable(id, kind) ==
    /\ proc_irq.listable
    /\ id \in DOMAIN proc_irq.entries
    /\ proc_irq.entries[id][kind] # << >>

\* A map holds for every IRQ exactly what its file of the given kind gives:
\* no entry when the file cannot be read, else the bytes before the final
\* line feed
ResolvedFrom(map, kind) ==
    /\ DOMAIN map \subseteq Ids
    /\ \A id \in Ids :
           /\ id \in DOMAIN map <=> FileReadable(id, kind)
           /\ id \in DOMAIN map =>
                  map[id] \o <<LF>> = proc_irq.entries[id][kind][1]

\* C17: after every sample the configured map is decided by the
\* smp_affinity_list files alone and the effective map by the
\* effective_affinity_list files alone, an unreadable file giving no entry;
\* and whatever the directory holds, the sample at startup and at a tick
\* can be completed.
C17_AffinityBestEffort ==
    /\ [](pc \in {"draw", "poll", "tick"} =>
              /\ ResolvedFrom(affinity_map, "smp_affinity_list")
              /\ ResolvedFrom(effective_affinity_map, "effective_affinity_list"))
    /\ [](pc = "start" => ENABLED Startup(UiSnapshots, ScansOf(proc_irq), FALSE))
    /\ [](pc = "tick" => ENABLED Tick(UiSnapshots, ScansOf(proc_irq), FALSE))

\* C17 witness: IRQ 9 lacks a readable effective_affinity_list and IRQ 16 a
\* readable smp_affinity_list; a tick has sampled both IRQs
C17_Witness ==
    /\ pc = "draw"
    /\ Len(deltas) = 2
    /\ proc_irq.listable
    /\ DOMAIN proc_irq.entries = Ids
    /\ proc_irq.entries[Id9].effective_affinity_list = << >>
    /\ proc_irq.entries[Id16].smp_affinity_list = << >>
    /\ affinity_map = [id \in {Id9} |-> Aff2]
    /\ effective_affinity_map = [id \in {Id16} |-> Aff03]

(***************************************************************************)
(* Properties of the cursor and the overlays across ticks (Spec)           *)
(***************************************************************************)

\* C18: at every draw the cursor is at most len - 1 (0 for an empty list),
\* whatever keys and ticks came before.
C18_CursorClampedAtRender ==
    pc = "draw" => selected_row <= MaxRow(deltas)

\* C19: show_help and show_irq_detail are never both true.
C19_OverlaysExclusive ==
    ~(show_help /\ show_irq_detail)

(***************************************************************************)
(* Properties of the order of the list (SpecOrder)                         *)
(***************************************************************************)

\* a <= b in bytewise lexicographic order: a is a prefix of b, or a has the
\* smaller byte at the first place where they differ
LexLeq(a, b) ==
    \/ (Len(a) <= Len(b) /\ SubSeq(b, 1, Len(a)) = a)
    \/ \E k \in 1..Min(Len(a), Len(b)) :
           /\ SubSeq(a, 1, k - 1) = SubSeq(b, 1, k - 1)
           /\ Code(a[k]) < Code(b[k])

\* The string a row is ordered by under the active key
RowString(row) ==
    CASE sort_by = "Irq" -> row[1]
      [] sort_by = "Affinity" ->
             IF row[1] \in DOMAIN affinity_map THEN affinity_map[row[1]] ELSE NA
      [] sort_by = "EffectiveAffinity" ->
             IF row[1] \in DOMAIN effective_affinity_map
             THEN effective_affinity_map[row[1]] ELSE NA
      [] sort_by = "Device" -> irq_data[row[1]].name

\* C20: in every state, and so after every tick and every Tab and at every
\* draw, each row of the total-delta list and the row after it are in the
\* order of the active key: total delta descending, or id, configured
\* affinity, effective affinity ("N/A" for an IRQ without entry) or device
\* description ascending bytewise.
C20_ListSortedByActiveKey ==
    \A i \in 1..(Len(deltas) - 1) :
        IF sort_by = "Delta"
        THEN deltas[i][2] >= deltas[i + 1][2]
        ELSE LexLeq(RowString(deltas[i]), RowString(deltas[i + 1]))

\* C20 witness: three rows by configured affinity, "0-3" of IRQ 16 before
\* "2" of IRQ 9 before "N/A" of IRQ 130, which has no entry
C20_Witness ==
    /\ sort_by = "Affinity"
    /\ Len(deltas) = 3
    /\ << deltas[1][1], deltas[2][1], deltas[3][1] >> = << Id16, Id9, Id130 >>
    /\ Id130 \notin DOMAIN affinity_map

(***************************************************************************)
(* Properties of the two delta paths (SpecDelta)                           *)
(***************************************************************************)

\* C21: every entry (id, total) of the total-delta list has a per-CPU
\* delta vector, and total is the sum of its elements.
C21_TotalIsSumOfPerCpu ==
    \A i \in 1..Len(deltas) :
        /\ deltas[i][1] \in DOMAIN per_cpu_deltas
        /\ deltas[i][2] =
               SumOver(per_cpu_deltas[deltas[i][1]],
                       1..Len(per_cpu_deltas[deltas[i][1]]))

\* C21 witness: after two ticks IRQ 16 has the per-CPU deltas 30 and 15 and
\* the total 45
C21_Witness ==
    /\ older_ids # {}
    /\ Id16 \in DOMAIN per_cpu_deltas
    /\ per_cpu_deltas[Id16] = <<30, 15>>
    /\ \E e \in EntriesOf(Id16) : deltas[e][2] = 45

(***************************************************************************)
(* Properties of CPU hot-plug (SpecHotplug)                                *)
(***************************************************************************)

\* C22: for every IRQ of both the previous and the current snapshot,
\* whatever the lengths of its two count vectors, the per-CPU delta vector
\* has the length of the shorter and holds the saturating differences of
\* the counters both have; the sample of a tick can always be completed;
\* and no draw indexes a vector out of bounds.
C22_HotplugZipsToShorter ==
    /\ [](\A id \in SeenBefore :
              /\ Len(per_cpu_deltas[id]) =
                     Min(Len(base_data[id].counts), Len(irq_data[id].counts))
              /\ \A i \in 1..Len(per_cpu_deltas[id]) :
                     per_cpu_deltas[id][i] =
                         CounterDelta(base_data[id].counts[i],
                                      irq_data[id].counts[i]))
    /\ [](pc = "tick" => ENABLED Tick(HotplugSnapshots, AffinityScans, TRUE))
    /\ [](pc # "panic")

\* C22 witness: IRQ 16 went from one counter to two, and its detail view
\* was drawn with one row of cells, of which only the first has a delta
C22_Witness ==
    /\ pc = "poll"
    /\ DetailShown
    /\ size_height = 9
    /\ detail_irq_name = << Id16 >>
    /\ Id16 \in SeenBefore
    /\ Len(base_data[Id16].counts) = 1
    /\ Len(irq_data[Id16].counts) = 2
    /\ Len(per_cpu_deltas[Id16]) = 1

(***************************************************************************)
(* Properties of the retained snapshot (SpecDelta)                         *)
(***************************************************************************)

\* C23: the retained previous snapshot is the current snapshot; and an IRQ
\* of the current snapshot that the snapshot before it lacked, though the
\* one before that had it, has no entry in the total-delta list and its
\* current counts as per-CPU delta vector.
C23_OnlyPreviousSnapshot ==
    /\ prev_irq_data = irq_data
    /\ \A id \in (DOMAIN irq_data \cap older_ids) \ DOMAIN base_data :
           /\ EntriesOf(id) = {}
           /\ per_cpu_deltas[id] = irq_data[id].counts

\* C23 witness: IRQ 16 was sampled, then missing, then sampled again with
\* the counts 120 and 45
C23_Witness ==
    /\ Id16 \in older_ids
    /\ Id16 \notin DOMAIN base_data
    /\ Id16 \in DOMAIN irq_data
    /\ per_cpu_deltas[Id16] = <<120, 45>>
    /\ deltas = << >>

(***************************************************************************)
(* Properties of the terminal at the exit of the process (SpecMain)        *)
(***************************************************************************)

\* C24: when the process exits on an error path, the failed first sample
\* or an error returned by run_app, the terminal has left raw mode and the
\* alternate screen, unless it is one of the restoring calls that failed.
C24_TerminalRestoredOnError ==
    [][(pc \in {"start", "error"} /\ pc' = "exited" /\ ~RestoreFail) =>
           (~raw_mode' /\ ~alternate_screen')]_vars

(***************************************************************************)
(* Properties of the show mode (SpecShow)                                  *)
(***************************************************************************)

\* C25: a round of the show mode that follows an earlier sample does not
\* panic, and the delta it prints for every CPU both samples have is
\* curr - prev when curr >= prev and 0 when curr < prev.
C25_ShowClampsRegression ==
    [][(pc = "show" /\ prev_stats # << >>) =>
           /\ pc' # "panic"
           /\ pc' = "show" =>
                  \A i \in 1..Min(Len(prev_stats[1]), Len(prev_stats'[1])) :
                      show_deltas'[i] =
                          CounterDelta(prev_stats[1][i], prev_stats'[1][i])]_vars

=============================================================================
